---- MODULE Spec2Model ----
(***************************************************************************)
(* DynamoDBRepository (fastapi_auth_jwt/repository/dynamodb.py): a key-    *)
(* value session store on one DynamoDB table, addressed through the        *)
(* class-level binding SessionModel.Meta.                                  *)
(*                                                                         *)
(* A process is one interpreter (one server worker): it owns its own copy  *)
(* of SessionModel.Meta and runs one call at a time (the async methods     *)
(* hold no await, __init__ is synchronous).  All processes talk to the     *)
(* same remote store, so their remote requests interleave.  A step of the  *)
(* model is one remote request together with the local code around it.     *)
(*                                                                         *)
(* Two processes, two repository objects, two configurations, two keys and *)
(* two values are fixed; MaxCalls bounds the get/set/delete calls of a run.*)
(* The variables last and hist and the fields before and fault of a call   *)
(* are history: they record what happened and no action reads them to      *)
(* decide what the program does.                                           *)
(***************************************************************************)
EXTENDS Integers, Sequences, FiniteSets, TLC

\* ------------------------------------------------------------------ bounds
MaxCalls == 3        \* get, set and delete calls issued in a run

\* Two worker processes share the store.
Procs == {"w1", "w2"}
NoProc == "<none>"

\* The DynamoDBRepository objects that may be constructed, A before B.
Inst == {"A", "B"}
NoInst == "<none>"

Keys == {"tok-123", "never-set"}
Values == {"{sub:u1}", "{sub:u2}"}
None == "<None>"

\* DynamoDBConfig values handed to the constructor.
Configs ==
  { [table_name |-> "session_store", region |-> "us-east-1", endpoint_url |-> None],
    [table_name |-> "sessions_b", region |-> "eu-west-1",
     endpoint_url |-> "http://localhost:8000"] }
NoConfig == [table_name |-> None, region |-> None, endpoint_url |-> None]

\* SessionModel.Meta as the class body leaves it.
DefaultMeta == [table_name |-> "session_store", region |-> "us-east-1", host |-> None]

\* setup's three assignments to cls.Meta.
Bind(config) ==
  [table_name |-> config.table_name, region |-> config.region,
   host |-> config.endpoint_url]

\* A physical table is named by the binding that addresses it.
Tables == {Bind(c) : c \in Configs} \cup {DefaultMeta}

\* Failures of the remote store that are not "item not found": one that may strike
\* any request, and the store's refusal of a request on a table that is not there.
Faults == {"ConnectivityError"}
TableError == "TableError"

VARIABLES
  tblStatus,   \* store: table -> "ABSENT" | "CREATING" | "ACTIVE"
  items,       \* store: table -> set of stored items
  meta,        \* process -> its SessionModel.Meta
  inst,        \* repository object -> [state, config, owner, returned]
  pc,          \* process -> position in the call it runs
  call,        \* process -> the call it runs
  last,        \* the call that ended last, with its outcome (history)
  hist,        \* table -> key -> the last set/delete that returned (history)
  ncalls       \* calls issued so far

vars == <<tblStatus, items, meta, inst, pc, call, last, hist, ncalls>>

\* ------------------------------------------------------- attribute encoding
\* UnicodeAttribute: a str is stored as a DynamoDB string attribute.
Serialize(s) == [S |-> s]
Deserialize(a) == a.S

\* SessionModel(key=key, value=value) as the item save() sends.
SessionItem(key, value) == [key |-> Serialize(key), value |-> Serialize(value)]

\* A slip of get: the key attribute is read instead of the value attribute.
SessionValueOfKey(item) == Deserialize(item.key)

\* session.value of a model instance built from a stored item.
SessionValue(item) == Deserialize(item.value)

\* ------------------------------------------------------------- the store
ItemsOf(t, key) == {it \in items[t] : it.key = Serialize(key)}

Fault(e) == [kind |-> "Fault", error |-> e]
FaultAnswers == {Fault(e) : e \in Faults}

\* SessionModel.get(key): GetItem on the bound table.
GetItemAnswers(t, key) ==
  FaultAnswers \cup
    (IF tblStatus[t] # "ACTIVE" THEN {Fault(TableError)}
     ELSE IF ItemsOf(t, key) = {} THEN {[kind |-> "DoesNotExist"]}
     ELSE {[kind |-> "Item", item |-> it] : it \in ItemsOf(t, key)})

\* A write request: accepted only by an ACTIVE table.
WriteAnswers(t) ==
  FaultAnswers \cup
    (IF tblStatus[t] # "ACTIVE" THEN {Fault(TableError)} ELSE {[kind |-> "Ok"]})

\* A slip of save(): a conditional put that keeps the record already stored.
PutItemIfAbsent(tbl, item) ==
  IF \E it \in tbl : it.key = item.key THEN tbl ELSE tbl \cup {item}

\* A slip of save(): the item is added beside the one already stored.
PutItemAppend(tbl, item) == tbl \cup {item}

\* session.save(): PutItem with no condition replaces the item of that key.
PutItem(tbl, item) == {it \in tbl : it.key # item.key} \cup {item}

\* A slip of delete: the model instance is dropped without a DeleteItem request
\* taking effect.
DeleteItemNothing(tbl, item) == tbl

\* A condition the code does not send: the item is deleted only while it is still
\* the one the lookup read.
DeleteItemIfSame(tbl, item) == tbl \ {item}

\* A slip of delete: DeleteItem without its key condition empties the table.
DeleteItemAll(tbl, item) == {}

\* session.delete(): DeleteItem by hash key, no condition.
DeleteItem(tbl, item) == {it \in tbl : it.key # item.key}

\* cls.exists(): DescribeTable answers for a table in any status.
ExistsAnswers(t) ==
  FaultAnswers \cup {[kind |-> "Exists", exists |-> tblStatus[t] # "ABSENT"]}

\* cls.create_table(...): CreateTable is refused for a table that exists.
CreateAnswers(t) ==
  FaultAnswers \cup
    (IF tblStatus[t] # "ABSENT" THEN {Fault(TableError)} ELSE {[kind |-> "Ok"]})

\* ------------------------------------------------------------- outcomes
\* How a call ended, and the remote requests it sent (trips).
Returned(v, n) == [outcome |-> "returned", value |-> v, error |-> None, trips |-> n]
Raised(e, n) == [outcome |-> "raised", value |-> None, error |-> e, trips |-> n]
Running(n) == [outcome |-> "none", value |-> None, error |-> None, trips |-> n]

NoItem == [key |-> Serialize(None), value |-> Serialize(None)]
NoHist == [op |-> "none", value |-> None]
HistSet(v) == [op |-> "set", value |-> v]
HistDelete == [op |-> "delete", value |-> None]

\* A call: table is the binding its requests address, session the model instance
\* delete holds between its two requests, trips the requests sent so far, before
\* the history of the key in that table when the call's first request was served
\* (for the constructor: whether the table was there), fault the failure the
\* store answered the call's latest request with, seq the call's place in the
\* order the calls were submitted (kept where submitting a call and the arrival
\* of its request are separate steps, 0 elsewhere).
NoCall ==
  [op |-> "none", inst |-> NoInst, key |-> None, value |-> None, config |-> NoConfig,
   table |-> DefaultMeta, session |-> NoItem, trips |-> 0, before |-> NoHist,
   fault |-> None, seq |-> 0]

NoLast == [call |-> NoCall, res |-> Running(0)]

Init ==
  /\ tblStatus = [t \in Tables |-> "ABSENT"]
  /\ items = [t \in Tables |-> {}]
  /\ meta = [p \in Procs |-> DefaultMeta]
  /\ inst = [i \in Inst |->
              [state |-> "Uninitialized", config |-> NoConfig, owner |-> NoProc,
               returned |-> FALSE]]
  /\ pc = [p \in Procs |-> "idle"]
  /\ call = [p \in Procs |-> NoCall]
  /\ last = NoLast
  /\ hist = [t \in Tables |-> [k \in Keys |-> NoHist]]
  /\ ncalls = 0

\* ------------------------------------------------------------ local code
\* Each handler maps the store's answer to the n-th request of a call to the
\* next position of the call and, when the call ends there, its outcome.
Goto(next, n) == [pc |-> next, res |-> Running(n)]
Done(r) == [pc |-> "idle", res |-> r]

\* A slip of get: no except clause, DoesNotExist reaches the caller.
GetHandlerNoExcept(ans, n) ==
  IF ans.kind = "Item" THEN Done(Returned(SessionValue(ans.item), n))
  ELSE IF ans.kind = "DoesNotExist" THEN Done(Raised("DoesNotExist", n))
  ELSE Done(Raised(ans.error, n))

\* get, lines 72-76.
GetHandler(ans, n) ==
  IF ans.kind = "Item" THEN Done(Returned(SessionValue(ans.item), n))
  ELSE IF ans.kind = "DoesNotExist" THEN Done(Returned(None, n))
  ELSE Done(Raised(ans.error, n))

\* set, lines 89-90.
SetHandler(ans, n) ==
  IF ans.kind = "Ok" THEN Done(Returned(None, n)) ELSE Done(Raised(ans.error, n))

\* A slip of delete: no except clause, DoesNotExist reaches the caller.
DeleteLookupNoExcept(ans, n) ==
  IF ans.kind = "Item" THEN Goto("delete_item", n)
  ELSE IF ans.kind = "DoesNotExist" THEN Done(Raised("DoesNotExist", n))
  ELSE Done(Raised(ans.error, n))

\* A slip of delete: the record found is not deleted.
DeleteLookupOnly(ans, n) ==
  IF ans.kind = "Fault" THEN Done(Raised(ans.error, n)) ELSE Done(Returned(None, n))

\* A slip of delete: a bare except clause swallows every failure of the lookup.
DeleteLookupBareExcept(ans, n) ==
  IF ans.kind = "Item" THEN Goto("delete_item", n) ELSE Done(Returned(None, n))

\* delete, lines 102-103 and 105-106: the lookup.
DeleteLookupHandler(ans, n) ==
  IF ans.kind = "Item" THEN Goto("delete_item", n)
  ELSE IF ans.kind = "DoesNotExist" THEN Done(Returned(None, n))
  ELSE Done(Raised(ans.error, n))

\* delete, line 104: session.delete().
DeleteItemHandler(ans, n) ==
  IF ans.kind = "Ok" THEN Done(Returned(None, n)) ELSE Done(Raised(ans.error, n))

\* A slip of setup: a failed existence check is taken for "the table is there".
ExistsHandlerSwallow(ans, n) ==
  IF ans.kind = "Fault" THEN Done(Returned(None, n))
  ELSE IF ans.exists THEN Done(Returned(None, n))
  ELSE Goto("create_table", n)

\* setup, line 41: if not cls.exists().
ExistsHandler(ans, n) ==
  IF ans.kind = "Fault" THEN Done(Raised(ans.error, n))
  ELSE IF ans.exists THEN Done(Returned(None, n))
  ELSE Goto("create_table", n)

\* A guard the code does not have: a CreateTable refused because the table is
\* already there is taken for success.
CreateHandlerTolerant(ans, n) ==
  IF ans.kind = "Ok" THEN Goto("wait", n)
  ELSE IF ans.error = TableError THEN Goto("wait", n)
  ELSE Done(Raised(ans.error, n))

\* setup, line 42: cls.create_table(wait=True), the CreateTable request.
CreateHandler(ans, n) ==
  IF ans.kind = "Ok" THEN Goto("wait", n) ELSE Done(Raised(ans.error, n))

\* A slip of setup: create_table(wait=False).
CreateNoWait == FALSE

\* The wait argument of create_table, line 42.
CreateWaits == TRUE

\* ------------------------------------------------------------- lifecycle
\* The lowest repository object not yet under construction.
FreshInst ==
  IF inst["A"].state = "Uninitialized" THEN {"A"}
  ELSE IF inst["B"].state = "Uninitialized" THEN {"B"}
  ELSE {}

\* The repository objects a process holds: those its constructor returned.
Held(p) == {i \in Inst : inst[i].owner = p /\ inst[i].returned}

\* An architecture the code does not have: every repository object addresses the
\* table of its own configuration.
BoundTableOfInstance(p, i) == Bind(inst[i].config)

\* The table a call of process p on repository object i addresses: SessionModel's
\* class-level Meta, whatever self._config holds (lines 73, 89-90, 103-104).
BoundTable(p, i) == meta[p]

\* A slip of get/set/delete: the call binds Meta from self._config again.
OpMetaRebind(p, i) == [meta EXCEPT ![p] = Bind(inst[i].config)]

\* SessionModel.Meta after a step of get, set or delete of process p on object i:
\* lines 72-76, 89-90 and 102-106 assign neither cls.Meta nor self._config.
OpMeta(p, i) == meta

\* A caller may start get, set or delete.
CanCall(p) == pc[p] = "idle" /\ ncalls < MaxCalls

\* Process p goes on with call c at the position and outcome h gives; a call that
\* ends there is recorded as the last ended call.
Step(p, c, ans, h) ==
  LET d == [c EXCEPT !.trips = h.res.trips,
                     !.fault = IF ans.kind = "Fault" THEN ans.error ELSE None]
  IN /\ pc' = [pc EXCEPT ![p] = h.pc]
     /\ IF h.pc = "idle"
          THEN /\ call' = [call EXCEPT ![p] = NoCall]
               /\ last' = [call |-> d, res |-> h.res]
          ELSE /\ call' = [call EXCEPT ![p] = d]
               /\ UNCHANGED last

\* The repository object of a constructor call that ends: Ready when provisioning
\* succeeded, Failed when a request of it failed; the object is handed to the
\* caller when __init__ returns.
EndInit(ins, i, h, failed) ==
  IF h.pc # "idle" THEN ins
  ELSE [ins EXCEPT ![i].state = IF failed THEN "Failed" ELSE "Ready",
                   ![i].returned = (h.res.outcome = "returned")]

\* A repair the code does not have: a construction that raises puts back the
\* binding of the object the process constructed before it (the class default
\* when there is none).
SetupMetaRollback(p, h) ==
  IF h.res.outcome # "raised" THEN meta
  ELSE [meta EXCEPT ![p] = IF inst["A"].owner = p /\ inst["A"].state = "Ready"
                             THEN Bind(inst["A"].config) ELSE DefaultMeta]

\* SessionModel.Meta after a step of setup that takes the constructor to h: lines
\* 41-42 follow the assignments of lines 37-39 and nothing undoes them when
\* exists() or create_table() raises.
SetupMeta(p, h) == meta

\* Whether the table was there when the constructor checked (history).
TableSeen(t) ==
  [op |-> IF tblStatus[t] = "ABSENT" THEN "absent" ELSE "exists", value |-> None]

\* DynamoDBRepository(config): line 59 and setup's lines 37-39.
Construct(p) ==
  /\ pc[p] = "idle"
  /\ \E i \in FreshInst, c \in Configs :
       /\ inst' = [inst EXCEPT ![i] = [state |-> "Provisioning", config |-> c,
                                       owner |-> p, returned |-> FALSE]]
       /\ meta' = [meta EXCEPT ![p] = Bind(c)]
       /\ call' = [call EXCEPT ![p] = [NoCall EXCEPT !.op = "init", !.inst = i,
                                                     !.config = c, !.table = Bind(c)]]
  /\ pc' = [pc EXCEPT ![p] = "exists"]
  /\ UNCHANGED <<tblStatus, items, last, hist, ncalls>>

\* setup line 41: the existence check.
Exists(p) ==
  /\ pc[p] = "exists"
  /\ \E ans \in ExistsAnswers(meta[p]) :
       LET h == ExistsHandler(ans, call[p].trips + 1) IN
         /\ Step(p, [call[p] EXCEPT !.before = TableSeen(meta[p])], ans, h)
         /\ inst' = EndInit(inst, call[p].inst, h, ans.kind = "Fault")
         /\ meta' = SetupMeta(p, h)
  /\ UNCHANGED <<tblStatus, items, hist, ncalls>>

\* setup line 42: the CreateTable request.
CreateTable(p) ==
  /\ pc[p] = "create_table"
  /\ \E ans \in CreateAnswers(meta[p]) :
       LET h == CreateHandler(ans, call[p].trips + 1) IN
         /\ Step(p, call[p], ans, h)
         /\ tblStatus' = IF ans.kind = "Ok"
                           THEN [tblStatus EXCEPT ![meta[p]] = "CREATING"]
                           ELSE tblStatus
         /\ inst' = EndInit(inst, call[p].inst, h, ans.kind = "Fault")
         /\ meta' = SetupMeta(p, h)
  /\ UNCHANGED <<items, hist, ncalls>>

\* setup line 42: create_table returns; with wait it polls until the table is ACTIVE.
WaitActive(p) ==
  /\ pc[p] = "wait"
  /\ \/ /\ CreateWaits => tblStatus[meta[p]] = "ACTIVE"
        /\ LET h == Done(Returned(None, call[p].trips)) IN
             /\ Step(p, call[p], [kind |-> "Ok"], h)
             /\ inst' = EndInit(inst, call[p].inst, h, FALSE)
             /\ meta' = SetupMeta(p, h)
     \/ /\ CreateWaits
        /\ \E e \in Faults :
             LET h == Done(Raised(e, call[p].trips)) IN
               /\ Step(p, call[p], Fault(e), h)
               /\ inst' = EndInit(inst, call[p].inst, h, TRUE)
               /\ meta' = SetupMeta(p, h)
  /\ UNCHANGED <<tblStatus, items, hist, ncalls>>

\* The store finishes creating a table.
StoreActivate(t) ==
  /\ tblStatus[t] = "CREATING"
  /\ tblStatus' = [tblStatus EXCEPT ![t] = "ACTIVE"]
  /\ UNCHANGED <<items, meta, inst, pc, call, last, hist, ncalls>>

\* ------------------------------------------------------------ operations
\* get(key), lines 72-76, on a repository object the caller holds.
Get(p) ==
  /\ CanCall(p)
  /\ \E i \in Held(p), k \in Keys :
       LET t == BoundTable(p, i) IN
         /\ \E ans \in GetItemAnswers(t, k) :
              Step(p, [NoCall EXCEPT !.op = "get", !.inst = i, !.key = k, !.table = t,
                                     !.before = hist[t][k]],
                   ans, GetHandler(ans, 1))
         /\ meta' = OpMeta(p, i)
  /\ ncalls' = ncalls + 1
  /\ UNCHANGED <<tblStatus, items, inst, hist>>

\* set(key, value), lines 89-90.
Set(p) ==
  /\ CanCall(p)
  /\ \E i \in Held(p), k \in Keys, v \in Values :
       LET t == BoundTable(p, i)
           session == SessionItem(k, v)
       IN /\ \E ans \in WriteAnswers(t) :
               /\ Step(p, [NoCall EXCEPT !.op = "set", !.inst = i, !.key = k,
                             !.value = v, !.table = t, !.before = hist[t][k]],
                       ans, SetHandler(ans, 1))
               /\ IF ans.kind = "Ok"
                    THEN /\ items' = [items EXCEPT ![t] = PutItem(items[t], session)]
                         /\ hist' = [hist EXCEPT ![t][k] = HistSet(v)]
                    ELSE UNCHANGED <<items, hist>>
          /\ meta' = OpMeta(p, i)
  /\ ncalls' = ncalls + 1
  /\ UNCHANGED <<tblStatus, inst>>

\* delete(key), lines 102-103, 105-106: the lookup.
Delete(p) ==
  /\ CanCall(p)
  /\ \E i \in Held(p), k \in Keys :
       LET t == BoundTable(p, i) IN
         /\ \E ans \in GetItemAnswers(t, k) :
              LET h == DeleteLookupHandler(ans, 1) IN
                /\ Step(p, [NoCall EXCEPT !.op = "delete", !.inst = i, !.key = k,
                              !.table = t, !.before = hist[t][k],
                              !.session = IF ans.kind = "Item" THEN ans.item ELSE NoItem],
                        ans, h)
                /\ hist' = IF h.res.outcome = "returned"
                             THEN [hist EXCEPT ![t][k] = HistDelete]
                             ELSE hist
         /\ meta' = OpMeta(p, i)
  /\ ncalls' = ncalls + 1
  /\ UNCHANGED <<tblStatus, items, inst>>

\* delete, line 104: session.delete().
DeleteSession(p) ==
  /\ pc[p] = "delete_item"
  /\ LET t == BoundTable(p, call[p].inst)
         k == call[p].key
     IN \E ans \in WriteAnswers(t) :
          LET h == DeleteItemHandler(ans, call[p].trips + 1) IN
            /\ Step(p, call[p], ans, h)
            /\ IF ans.kind = "Ok"
                 THEN /\ items' = [items EXCEPT ![t] = DeleteItem(items[t], call[p].session)]
                      /\ hist' = [hist EXCEPT ![t][k] = HistDelete]
                 ELSE UNCHANGED <<items, hist>>
  /\ meta' = OpMeta(p, call[p].inst)
  /\ UNCHANGED <<tblStatus, inst, ncalls>>

\* set with the request in flight. SubmitSet: the caller enters set and line 89
\* builds the record; save() has sent PutItem, which has not reached the store.
SubmitSet(p) ==
  /\ CanCall(p)
  /\ \E i \in Held(p), k \in Keys, v \in Values :
       /\ call' = [call EXCEPT ![p] =
                     [NoCall EXCEPT !.op = "set", !.inst = i, !.key = k, !.value = v,
                                    !.table = BoundTable(p, i), !.seq = ncalls + 1]]
       /\ meta' = OpMeta(p, i)
  /\ pc' = [pc EXCEPT ![p] = "save"]
  /\ ncalls' = ncalls + 1
  /\ UNCHANGED <<tblStatus, items, inst, last, hist>>

\* ArriveSet: the store serves the PutItem of line 90 and set ends.
ArriveSet(p) ==
  /\ pc[p] = "save"
  /\ LET t == call[p].table
         k == call[p].key
         session == SessionItem(k, call[p].value)
     IN \E ans \in WriteAnswers(t) :
          /\ Step(p, [call[p] EXCEPT !.before = hist[t][k]], ans, SetHandler(ans, 1))
          /\ IF ans.kind = "Ok"
               THEN /\ items' = [items EXCEPT ![t] = PutItem(items[t], session)]
                    /\ hist' = [hist EXCEPT ![t][k] = HistSet(call[p].value)]
               ELSE UNCHANGED <<items, hist>>
  /\ meta' = OpMeta(p, call[p].inst)
  /\ UNCHANGED <<tblStatus, inst, ncalls>>

Next ==
  \/ \E p \in Procs : Construct(p)
  \/ \E p \in Procs : Exists(p)
  \/ \E p \in Procs : CreateTable(p)
  \/ \E p \in Procs : WaitActive(p)
  \/ \E t \in Tables : StoreActivate(t)
  \/ \E p \in Procs : Get(p)
  \/ \E p \in Procs : Set(p)
  \/ \E p \in Procs : Delete(p)
  \/ \E p \in Procs : DeleteSession(p)

Spec == Init /\ [][Next]_vars

\* The same program with every set's request in flight between two steps, which
\* tells the order in which sets were submitted from the order in which their
\* puts reach the store.
NextInFlight ==
  \/ \E p \in Procs : Construct(p)
  \/ \E p \in Procs : Exists(p)
  \/ \E p \in Procs : CreateTable(p)
  \/ \E p \in Procs : WaitActive(p)
  \/ \E t \in Tables : StoreActivate(t)
  \/ \E p \in Procs : Get(p)
  \/ \E p \in Procs : SubmitSet(p)
  \/ \E p \in Procs : ArriveSet(p)

SpecInFlight == Init /\ [][NextInFlight]_vars

TypeOK ==
  /\ tblStatus \in [Tables -> {"ABSENT", "CREATING", "ACTIVE"}]
  /\ \A t \in Tables : items[t] \subseteq {SessionItem(k, v) : k \in Keys, v \in Values}
  /\ meta \in [Procs -> Tables]
  /\ pc \in [Procs -> {"idle", "exists", "create_table", "wait", "delete_item", "save"}]
  /\ ncalls \in 0..MaxCalls

\* ======================================================================
\* Properties
\* ======================================================================
StoreFailures == Faults \cup {TableError}
DataOps == {"get", "set", "delete"}

\* C1: when set(k, v) has returned and no other set or delete of k in the bound
\* table has returned since, a get(k) that returns gives exactly v.
C1_SetThenGet ==
  (last.call.op = "get" /\ last.res.outcome = "returned" /\ last.call.before.op = "set")
    => last.res.value = last.call.before.value

C1_Witness ==
  /\ last.call.op = "get"
  /\ last.call.before.op = "set"
  /\ last.res.outcome = "returned"
  /\ last.res.value \in Values

\* C2: get(k) on a key never set in the bound table, or whose last returned
\* operation there was delete(k), gives None as a normal result; the not-found
\* condition is never raised, only a failure of the store is.
C2_GetAbsent ==
  (last.call.op = "get" /\ last.call.before.op \in {"none", "delete"})
    => \/ last.res.outcome = "returned" /\ last.res.value = None
       \/ /\ last.res.outcome = "raised"
          /\ last.res.error \in StoreFailures
          /\ last.call.fault = last.res.error

C2_Witness ==
  /\ last.call.op = "get"
  /\ last.call.before.op = "delete"
  /\ last.res.outcome = "returned"
  /\ last.res.value = None

\* C3: a set(k, v2) that returns leaves exactly the record (k, v2) for k, whatever
\* record (k, v1) was there, and returns None with or without a prior record; a
\* get(k) served next returns v2.
C3_Overwrite ==
  /\ (last.call.op = "set" /\ last.res.outcome = "returned")
       => /\ ItemsOf(last.call.table, last.call.key)
               = {SessionItem(last.call.key, last.call.value)}
          /\ last.res = Returned(None, 1)
          /\ \A ans \in GetItemAnswers(last.call.table, last.call.key) :
               ans.kind # "Fault" => GetHandler(ans, 1).res.value = last.call.value
  /\ (last.call.op = "set" /\ last.res.outcome = "raised")
       => last.call.fault \in StoreFailures

C3_Witness ==
  /\ last.call.op = "set"
  /\ last.res.outcome = "returned"
  /\ last.call.before.op = "set"
  /\ last.call.before.value # last.call.value

\* C4: delete(k) never raises the not-found condition, also when the last returned
\* operation on k was a delete; after a delete that returned there is no record
\* of k, and a get(k) served after it returns None.
C4_DeleteIdempotent ==
  /\ last.call.op = "delete" =>
       \/ /\ last.res = Returned(None, last.call.trips)
          /\ ItemsOf(last.call.table, last.call.key) = {}
          /\ hist[last.call.table][last.call.key] = HistDelete
       \/ /\ last.res.outcome = "raised"
          /\ last.res.error \in StoreFailures
          /\ last.call.fault = last.res.error
  /\ \A t \in Tables, k \in Keys :
       (hist[t][k] = HistDelete /\ tblStatus[t] = "ACTIVE")
         => \A ans \in GetItemAnswers(t, k) :
              ans.kind # "Fault" => GetHandler(ans, 1).res = Returned(None, 1)

C4_Witness ==
  /\ last.call.op = "delete"
  /\ last.call.before.op = "delete"
  /\ last.res.outcome = "returned"

\* C5: a delete(k) that finds no record of k returns None and changes no stored
\* record (unless the store fails the lookup, which changes nothing either).
C5_DeleteAbsentNoOp ==
  [][(/\ last' # last
      /\ last'.call.op = "delete"
      /\ last'.call.trips = 1
      /\ tblStatus[last'.call.table] = "ACTIVE"
      /\ ItemsOf(last'.call.table, last'.call.key) = {})
       => /\ items' = items
          /\ tblStatus' = tblStatus
          /\ \/ last'.res = Returned(None, 1)
             \/ last'.res.outcome = "raised" /\ last'.res.error \in Faults]_vars

C5_Witness ==
  /\ last.call.op = "delete"
  /\ last.call.before.op = "none"
  /\ last.call.session = NoItem
  /\ last.res.outcome = "returned"
  /\ \E k \in Keys : ItemsOf(last.call.table, k) # {}

\* C6: a constructor that finds its table absent returns only after creating it
\* and with the table ACTIVE, or raises; one that finds the table there sends no
\* CreateTable request.
C6_ConstructProvisions ==
  last.call.op = "init" =>
    /\ (last.call.before.op = "absent" /\ last.res.outcome = "returned")
         => last.call.trips = 2 /\ tblStatus[last.call.table] = "ACTIVE"
    /\ last.call.before.op = "exists"
         => last.call.trips = 1 /\ tblStatus[last.call.table] # "ABSENT"
    /\ last.res.outcome = "raised" => last.call.fault \in StoreFailures

C6_Witness ==
  /\ last.call.op = "init"
  /\ last.call.before.op = "absent"
  /\ last.res.outcome = "returned"
  /\ tblStatus[last.call.table] = "ACTIVE"

\* C7: a repository object is Ready only after its existence check (and creation)
\* succeeded; a failure of either is raised by the constructor, leaves the object
\* Failed for good and not handed to the caller; get/set/delete only ever run on
\* Ready objects.
LifecycleEdges ==
  {<<"Uninitialized", "Provisioning">>, <<"Provisioning", "Ready">>,
   <<"Provisioning", "Failed">>}

C7_LifecycleState ==
  /\ \A i \in Inst :
       /\ inst[i].returned <=> inst[i].state = "Ready"
       /\ inst[i].state = "Ready" => tblStatus[Bind(inst[i].config)] # "ABSENT"
       /\ inst[i].state = "Provisioning"
            <=> \E p \in Procs : /\ pc[p] \in {"exists", "create_table", "wait"}
                                 /\ call[p].inst = i
  /\ last.call.op = "init" =>
       /\ last.call.fault # None
            <=> (last.res = Raised(last.call.fault, last.call.trips)
                 /\ inst[last.call.inst].state = "Failed")
       /\ last.call.fault = None
            <=> (last.res.outcome = "returned" /\ inst[last.call.inst].state = "Ready")
  /\ last.call.op \in DataOps => inst[last.call.inst].state = "Ready"
  /\ \A p \in Procs : pc[p] = "delete_item" => inst[call[p].inst].state = "Ready"

C7_Lifecycle ==
  /\ []C7_LifecycleState
  /\ [][\A i \in Inst :
          inst'[i].state # inst[i].state
            => <<inst[i].state, inst'[i].state>> \in LifecycleEdges]_vars

C7_Witness ==
  /\ inst["A"].state = "Failed"
  /\ inst["B"].state = "Ready"
  /\ last.call.op \in DataOps
  /\ last.call.inst = "B"

\* C8: in get, set and delete a failure of the store other than not-found is
\* raised to the caller as it is, by the request it struck (no further request
\* follows it); nothing but not-found becomes None or a silent success.
C8_FailuresPropagate ==
  last.call.op \in DataOps =>
    /\ last.call.fault # None
         <=> last.res = Raised(last.call.fault, last.call.trips)
    /\ last.call.fault = None <=> last.res.outcome = "returned"
    /\ last.res.outcome = "raised" => last.res.error \in StoreFailures
    /\ last.call.trips \in 1..2
    /\ last.call.op \in {"get", "set"} => last.call.trips = 1

C8_Witness ==
  /\ last.call.op = "delete"
  /\ last.call.trips = 2
  /\ last.res.outcome = "raised"
  /\ last.res.error \in Faults

\* C9 as stated: every get, set and delete sends exactly one request.
C9_OneRoundTrip == last.call.op \in DataOps => last.call.trips = 1

\* C9 as amended: get and set send exactly one request; delete sends one when its
\* lookup finds no record or fails, and two (the lookup, then the delete) when the
\* lookup finds the record; no request is sent again.
C9_RoundTrips ==
  /\ last.call.op \in {"get", "set"} => last.call.trips = 1
  /\ last.call.op = "delete"
       => last.call.trips = IF last.call.session # NoItem THEN 2 ELSE 1

C9_Witness ==
  /\ last.call.op = "delete"
  /\ last.call.session # NoItem
  /\ last.call.trips = 2
  /\ last.res.outcome = "returned"

\* C10: every table holds at most one record per key, in every state reached by
\* any interleaving of set, get and delete.
C10_OneRecordPerKey ==
  \A t \in Tables : \A a \in items[t], b \in items[t] : a.key = b.key => a = b

C10_Witness ==
  /\ last.call.op = "set"
  /\ last.res.outcome = "returned"
  /\ last.call.before.op = "set"
  /\ last.call.before.value # last.call.value
  /\ Cardinality(items[last.call.table]) = 2

\* A step of get, set or delete: one starts (ncalls grows) or a delete sends its
\* second request.
DataStep == ncalls' # ncalls \/ \E p \in Procs : pc[p] = "delete_item" /\ pc'[p] # pc[p]

\* C11: no step of get, set or delete changes the shared binding, the stored
\* configuration or the lifecycle state of any repository object, whether the
\* call returns a value, returns None or raises.
C11_OpsKeepBackend == [][DataStep => (meta' = meta /\ inst' = inst)]_vars

C11_Witness ==
  /\ last.call.op = "delete"
  /\ last.res.outcome = "raised"
  /\ last.call.trips = 2
  /\ inst[last.call.inst].state = "Ready"
  /\ meta[inst[last.call.inst].owner] = Bind(inst[last.call.inst].config)

\* C12: whenever get, set or delete runs on a constructed repository object, the
\* table it addresses (the currently bound one) exists in the store. Tables are
\* never dropped, so a table absent now was absent when the call ran.
C12_TableExistsAtOps ==
  /\ (last.call.op \in DataOps /\ inst[last.call.inst].state = "Ready")
       => tblStatus[last.call.table] # "ABSENT"
  /\ \A p \in Procs : pc[p] = "delete_item" => tblStatus[call[p].table] # "ABSENT"

\* The repository object whose construction process p began most recently
\* (object A is always constructed before object B).
LatestInst(p) ==
  IF inst["B"].owner = p THEN "B" ELSE IF inst["A"].owner = p THEN "A" ELSE NoInst

\* The table named by the configuration of that construction.
LatestTable(p) ==
  IF LatestInst(p) = NoInst THEN DefaultMeta
  ELSE LET c == inst[LatestInst(p)].config
       IN [table_name |-> c.table_name, region |-> c.region, host |-> c.endpoint_url]

\* Call c addresses the table of the latest construction in its process.
AddressesLatest(c) == c.table = LatestTable(inst[c.inst].owner)

\* C13: the binding is process-wide. Every get, set or delete addresses the table
\* of the configuration most recently constructed in its process, not the table
\* of its own object's configuration: once B is constructed with a different
\* configuration, calls on A address B's table.
C13_ProcessWideBinding ==
  [][ncalls' # ncalls =>
       /\ last' # last => AddressesLatest(last'.call)
       /\ \A p \in Procs : call'[p] # call[p] => AddressesLatest(call'[p])]_vars

C13_Witness ==
  /\ last.call.op = "set" /\ last.call.inst = "A" /\ last.res.outcome = "returned"
  /\ inst["A"].state = "Ready" /\ inst["B"].state = "Ready"
  /\ inst["A"].owner = inst["B"].owner
  /\ inst["A"].config # inst["B"].config
  /\ last.call.table = Bind(inst["B"].config)
  /\ SessionItem(last.call.key, last.call.value) \in items[Bind(inst["B"].config)]
  /\ ItemsOf(Bind(inst["A"].config), last.call.key) = {}

\* C14: sets of one key from two processes run with no locking, each a single
\* put that replaces the record. Once puts of the key have reached the store,
\* the table holds exactly one record for it, with the value of the put that
\* arrived last, and a get returns that value: never absent, never a merge,
\* never a third value, whichever set was submitted first.
C14_LastArrivalWins ==
  /\ \A t \in Tables, k \in Keys :
       hist[t][k].op = "set" => ItemsOf(t, k) = {SessionItem(k, hist[t][k].value)}
  /\ (last.call.op = "get" /\ last.res.outcome = "returned" /\ last.call.before.op = "set")
       => (last.res.value = last.call.before.value /\ last.res.value \in Values)

\* Two sets of one key were the only calls; the one submitted first arrived last,
\* after the other had arrived, and its value is the stored one.
C14_Witness ==
  /\ ncalls = 2
  /\ \A p \in Procs : pc[p] = "idle"
  /\ last.call.op = "set" /\ last.res.outcome = "returned"
  /\ last.call.seq = 1
  /\ last.call.before.op = "set"
  /\ last.call.before.value # last.call.value
  /\ ItemsOf(last.call.table, last.call.key)
       = {SessionItem(last.call.key, last.call.value)}

\* C15: nothing serialises table creation. Two constructions for one absent
\* table can both pass the existence check, so both send CreateTable. The store
\* accepts one create per table; the construction whose create reaches a table
\* that is already there gets the store's refusal, which setup does not catch,
\* and ends Failed: the two never both end Ready through their own create.
C15_CreateRace ==
  /\ \A p \in Procs :
       (pc[p] = "create_table" /\ tblStatus[meta[p]] # "ABSENT")
         => \A ans \in CreateAnswers(meta[p]) :
              CreateHandler(ans, call[p].trips + 1).res.outcome = "raised"
  /\ \A p, q \in Procs :
       (p # q /\ pc[p] = "wait" /\ pc[q] = "wait") => meta[p] # meta[q]
  /\ (last.call.op = "init" /\ last.call.fault = TableError)
       => /\ last.call.before.op = "absent"
          /\ last.call.trips = 2
          /\ last.res = Raised(TableError, 2)
          /\ inst[last.call.inst].state = "Failed"
          /\ tblStatus[last.call.table] # "ABSENT"

\* Both constructions saw the table absent and sent their create: the first is
\* Ready, the second was refused and Failed.
C15_Witness ==
  /\ last.call.op = "init" /\ last.call.fault = TableError
  /\ last.call.before.op = "absent"
  /\ inst[last.call.inst].state = "Failed"
  /\ \E i \in Inst \ {last.call.inst} :
       /\ inst[i].config = last.call.config
       /\ inst[i].owner # inst[last.call.inst].owner
       /\ inst[i].state = "Ready"

\* A single atomic delete-if-exists of key k in table t with result r: it removes
\* whatever record k has at that moment and returns None, or it fails and leaves
\* the store as it was.
AtomicDelete(t, k, r) ==
  \/ /\ r.outcome = "returned" /\ r.value = None
     /\ tblStatus[t] = "ACTIVE"
     /\ items' = [items EXCEPT ![t] = items[t] \ ItemsOf(t, k)]
  \/ /\ r.outcome = "raised" /\ r.error \in StoreFailures
     /\ items' = items

\* A delete ends in this step.
DeleteEnds ==
  /\ last'.call.op = "delete"
  /\ last' # last \/ \E p \in Procs : pc[p] = "delete_item" /\ pc'[p] = "idle"

\* C16: delete, a lookup followed by an unconditional delete by key, acts as one
\* atomic delete-if-exists placed at its last request. The step that ends a
\* delete has exactly the effect and result of the atomic delete on the store as
\* it is then, whatever concurrent sets and gets did after the lookup, and the
\* lookup that found the record changes nothing another call can see.
C16_DeleteAtomic ==
  [][/\ DeleteEnds => AtomicDelete(last'.call.table, last'.call.key, last'.res)
     /\ \A p \in Procs :
          (pc[p] = "idle" /\ pc'[p] = "delete_item")
            => (items' = items /\ tblStatus' = tblStatus /\ last' = last /\ hist' = hist)
    ]_vars

\* A concurrent set replaced the record between a delete's lookup and its
\* delete request.
C16_Witness ==
  \E p \in Procs :
    /\ pc[p] = "delete_item"
    /\ call[p].session \notin items[call[p].table]
    /\ ItemsOf(call[p].table, call[p].key) # {}
    /\ last.call.op = "set" /\ last.res.outcome = "returned"
    /\ last.call.key = call[p].key /\ last.call.table = call[p].table

\* C17: key isolation. In every step, the record of a key in a table changes only
\* when that step ends a set or a delete of that very key on that table; a get
\* changes no record, and a set or delete of k leaves every other key's presence
\* and value as they were.
C17_KeyIsolation ==
  [][\A t \in Tables, j \in Keys :
       ItemsOf(t, j)' # ItemsOf(t, j)
         => /\ last'.call.op \in {"set", "delete"}
            /\ last'.res.outcome = "returned"
            /\ last'.call.key = j
            /\ last'.call.table = t]_vars

\* A delete removed one key's record while the other key's record stayed.
C17_Witness ==
  /\ last.call.op = "delete" /\ last.res.outcome = "returned" /\ last.call.trips = 2
  /\ ItemsOf(last.call.table, last.call.key) = {}
  /\ \E j \in Keys \ {last.call.key} :
       hist[last.call.table][j].op = "set"
         /\ ItemsOf(last.call.table, j) = {SessionItem(j, hist[last.call.table][j].value)}

\* C18: setup binds before it checks or creates the table and nothing undoes the
\* binding. In every state, also while a construction is provisioning and after
\* one has failed, the binding of a process is the configuration of the latest
\* construction attempt in that process (the class default before the first),
\* and a delete in flight addresses that table.
C18_BindingIsLatestAttempt ==
  /\ \A p \in Procs : meta[p] = LatestTable(p)
  /\ \A p \in Procs : pc[p] = "delete_item" => call[p].table = LatestTable(p)

\* B's construction failed in the process where A is Ready with another
\* configuration; the binding is B's, and a call through A went to B's table.
C18_Witness ==
  /\ inst["A"].state = "Ready" /\ inst["B"].state = "Failed"
  /\ inst["A"].owner = inst["B"].owner
  /\ inst["A"].config # inst["B"].config
  /\ meta[inst["A"].owner].table_name = inst["B"].config.table_name
  /\ last.call.op \in DataOps /\ last.call.inst = "A"
  /\ last.call.table.table_name = inst["B"].config.table_name

====
